---- MODULE Spec2Model ----
(***************************************************************************)
(* Zen-GO: the rule engine (utils/gameLogic: tryMakeMove and its helpers)  *)
(* and the game state machine of App (handleMove, handlePass, ...).        *)
(*                                                                         *)
(* JavaScript arrays are objects: a BoardState is an array of references   *)
(* to row arrays.  The engine is therefore modelled over a memory `mem`    *)
(* (address -> row) and boards that are arrays of row addresses, so that   *)
(* writes through an aliased row are visible to every holder of the row.   *)
(*                                                                         *)
(* The grid side BOARD_SIZE is 19 in the source; the model instantiates it *)
(* at 3, the smallest side on which corner, edge and interior cells, multi *)
(* stone captures and ko all occur.                                        *)
(***************************************************************************)
EXTENDS Integers, Sequences, FiniteSets, Bags, TLC

BOARD_SIZE == 3

\* JavaScript null (an empty cell, no last move, no winner).
Null == "null"

PlayerColor == {"black", "white"}

Cell == PlayerColor \cup {Null}

Idx == 0 .. (BOARD_SIZE - 1)

\* BoardState as a value: board[y][x].
BoardState == [Idx -> [Idx -> Cell]]

INITIAL_BOARD == [y \in Idx |-> [x \in Idx |-> Null]]

----------------------------------------------------------------------------
(* Memory: row arrays live at addresses 0, 1, 2, ...; a board is an array  *)
(* of row addresses.                                                       *)

\* The caller's board, laid out in memory: row y at address y.
LoadBoard(board) == [mem |-> [a \in Idx |-> board[a]], board |-> [y \in Idx |-> y]]

\* The contents of a board held in memory, as a value.
Deref(mem, b) == [y \in Idx |-> mem[b[y]]]

\* board.map(row => [...row]) without the spread: the outer array is new,
\* the rows are the caller's.
copyBoardShallow(mem, b) == [mem |-> mem, board |-> b]

\* const copyBoard = (board) => board.map(row => [...row]);
copyBoard(mem, b) ==
    LET base == Cardinality(DOMAIN mem)
    IN  [mem   |-> [a \in 0 .. (base + BOARD_SIZE - 1) |->
                       IF a < base THEN mem[a] ELSE mem[b[a - base]]],
         board |-> [y \in Idx |-> base + y]]

isOnBoard(x, y) == x >= 0 /\ x < BOARD_SIZE /\ y >= 0 /\ y < BOARD_SIZE

Pt(x, y) == [x |-> x, y |-> y]

\* The neighbours with the left bound off by one: x > 1.
getNeighborsOffByOne(x, y) ==
    (IF x > 1 THEN << Pt(x - 1, y) >> ELSE << >>)
    \o (IF x < BOARD_SIZE - 1 THEN << Pt(x + 1, y) >> ELSE << >>)
    \o (IF y > 0 THEN << Pt(x, y - 1) >> ELSE << >>)
    \o (IF y < BOARD_SIZE - 1 THEN << Pt(x, y + 1) >> ELSE << >>)

getNeighbors(x, y) ==
    (IF x > 0 THEN << Pt(x - 1, y) >> ELSE << >>)
    \o (IF x < BOARD_SIZE - 1 THEN << Pt(x + 1, y) >> ELSE << >>)
    \o (IF y > 0 THEN << Pt(x, y - 1) >> ELSE << >>)
    \o (IF y < BOARD_SIZE - 1 THEN << Pt(x, y + 1) >> ELSE << >>)

\* The Set<string> key `${x},${y}`.
Key(x, y) == ToString(x) \o "," \o ToString(y)

\* The loop with the same-colour branch left out: the group is the seed
\* stone alone.
GroupLoopSeedOnly(mem, b, color, queue, visited, group, liberties) ==
    LET current == Head(queue)
        neighbors == getNeighbors(current.x, current.y)
    IN  [group |-> << current >>,
         liberties |-> Cardinality({i \in DOMAIN neighbors :
                           mem[b[neighbors[i].y]][neighbors[i].x] = Null})]

\* The loop with liberties kept as a counter instead of a Set: an empty
\* cell is counted once for every stone of the group next to it.
RECURSIVE GroupLoopCounting(_, _, _, _, _, _, _)
GroupLoopCounting(mem, b, color, queue, visited, group, count) ==
    IF queue = << >>
    THEN [group |-> group, liberties |-> count]
    ELSE LET current == Head(queue)
             neighbors == getNeighbors(current.x, current.y)
             empties == {j \in DOMAIN neighbors :
                            mem[b[neighbors[j].y]][neighbors[j].x] = Null}
             pushed == SelectSeq(neighbors, LAMBDA n :
                            /\ mem[b[n.y]][n.x] = color
                            /\ Key(n.x, n.y) \notin visited)
         IN  GroupLoopCounting(mem, b, color,
                       Tail(queue) \o pushed,
                       visited \cup {Key(pushed[i].x, pushed[i].y) : i \in DOMAIN pushed},
                       Append(group, current),
                       count + Cardinality(empties))

GroupLoopPerStone(mem, b, color, queue, visited, group, liberties) ==
    GroupLoopCounting(mem, b, color, queue, visited, group, 0)

\* The while loop of getGroupAndLiberties: one iteration per dequeued stone.
\* The neighbours of a cell are distinct cells, so the inner for loop adds
\* the empty ones to `liberties` and enqueues the unvisited ones of the
\* group's colour in neighbour order.
RECURSIVE GroupLoop(_, _, _, _, _, _, _)
GroupLoop(mem, b, color, queue, visited, group, liberties) ==
    IF queue = << >>
    THEN [group |-> group, liberties |-> Cardinality(liberties)]
    ELSE LET current == Head(queue)
             neighbors == getNeighbors(current.x, current.y)
             empties == {Key(neighbors[i].x, neighbors[i].y) : i \in
                            {j \in DOMAIN neighbors :
                                mem[b[neighbors[j].y]][neighbors[j].x] = Null}}
             pushed == SelectSeq(neighbors, LAMBDA n :
                            /\ mem[b[n.y]][n.x] = color
                            /\ Key(n.x, n.y) \notin visited)
         IN  GroupLoop(mem, b, color,
                       Tail(queue) \o pushed,
                       visited \cup {Key(pushed[i].x, pushed[i].y) : i \in DOMAIN pushed},
                       Append(group, current),
                       liberties \cup empties)

getGroupAndLiberties(mem, b, x, y) ==
    LET color == mem[b[y]][x]
    IN  IF color = Null
        THEN [group |-> << >>, liberties |-> 0]
        ELSE GroupLoop(mem, b, color, << Pt(x, y) >>, {Key(x, y)}, << >>, {})

\* group.forEach(stone => { newBoard[stone.y][stone.x] = null; capturedCount++; })
RECURSIVE RemoveStones(_, _, _)
RemoveStones(mem, b, group) ==
    IF group = << >>
    THEN mem
    ELSE RemoveStones([mem EXCEPT ![b[Head(group).y]][Head(group).x] = Null],
                      b, Tail(group))

Opponent(player) == IF player = "black" THEN "white" ELSE "black"

\* The capture pass ending at the first group it removes.
RECURSIVE CaptureLoopFirstOnly(_, _, _, _, _)
CaptureLoopFirstOnly(mem, b, neighbors, opponent, capturedCount) ==
    IF neighbors = << >>
    THEN [mem |-> mem, capturedCount |-> capturedCount]
    ELSE LET n == Head(neighbors)
             gl == getGroupAndLiberties(mem, b, n.x, n.y)
         IN  IF mem[b[n.y]][n.x] = opponent /\ gl.liberties = 0
             THEN [mem |-> RemoveStones(mem, b, gl.group),
                   capturedCount |-> capturedCount + Len(gl.group)]
             ELSE CaptureLoopFirstOnly(mem, b, Tail(neighbors), opponent, capturedCount)

\* neighbors.forEach(n => ...): the capture pass over the neighbours of the
\* placed stone, in the order given, on the working board.
RECURSIVE CaptureLoop(_, _, _, _, _)
CaptureLoop(mem, b, neighbors, opponent, capturedCount) ==
    IF neighbors = << >>
    THEN [mem |-> mem, capturedCount |-> capturedCount]
    ELSE LET n == Head(neighbors)
         IN  IF mem[b[n.y]][n.x] = opponent
             THEN LET gl == getGroupAndLiberties(mem, b, n.x, n.y)
                  IN  IF gl.liberties = 0
                      THEN CaptureLoop(RemoveStones(mem, b, gl.group), b,
                                       Tail(neighbors), opponent,
                                       capturedCount + Len(gl.group))
                      ELSE CaptureLoop(mem, b, Tail(neighbors), opponent, capturedCount)
             ELSE CaptureLoop(mem, b, Tail(neighbors), opponent, capturedCount)

\* JSON.stringify of one cell, one row, a board.
StringifyCell(c) == IF c = Null THEN "null" ELSE "\"" \o c \o "\""

RECURSIVE JoinCells(_, _)
JoinCells(row, x) ==
    IF x = BOARD_SIZE - 1
    THEN StringifyCell(row[x])
    ELSE StringifyCell(row[x]) \o "," \o JoinCells(row, x + 1)

StringifyRow(row) == "[" \o JoinCells(row, 0) \o "]"

RECURSIVE JoinRows(_, _)
JoinRows(board, y) ==
    IF y = BOARD_SIZE - 1
    THEN StringifyRow(board[y])
    ELSE StringifyRow(board[y]) \o "," \o JoinRows(board, y + 1)

JSONstringify(board) == "[" \o JoinRows(board, 0) \o "]"

ErrInvalid == "Invalid position"
ErrOccupied == "Position occupied"
ErrSuicide == "Suicide move is forbidden"
ErrKo == "Ko rule: cannot repeat position immediately"

Undefined == "undefined"

\* The repetition check against every entry of the history.
KoRepeatsAnywhere(history, boardHash) ==
    \E i \in 1 .. Len(history) : history[i] = boardHash

\* history.length > 1 && history[history.length - 2] === boardHash
\* (history is a 1-based sequence here: entry length - 2 is history[Len - 1]).
KoRepeats(history, boardHash) ==
    Len(history) > 1 /\ history[Len(history) - 1] = boardHash

\* What the caller holds after the call: the MoveResult, the contents of
\* the board and of the history it passed in (`input`, `history`: the
\* function only reads history) and whether the returned board shares a row
\* array with the board passed in.
Outcome(success, error, mem, input, newBoard, capturedCount, history) ==
    [success       |-> success,
     error         |-> error,
     newBoard      |-> IF success THEN Deref(mem, newBoard) ELSE Undefined,
     capturedCount |-> IF success THEN capturedCount ELSE Undefined,
     input         |-> Deref(mem, input),
     history       |-> history,
     sharesRows    |-> success /\ \E y1, y2 \in Idx : newBoard[y1] = input[y2]]

\* The occupancy check with the indices exchanged: currentBoard[x][y].
OccupiedTransposed(mem, b, x, y) == mem[b[x]][y] # Null

\* currentBoard[y][x] !== null
Occupied(mem, b, x, y) == mem[b[y]][x] # Null

\* tryMakeMove with the suicide check made before the capture pass.
tryMakeMoveSuicideFirst(mem0, currentBoard, x, y, player, history) ==
    IF ~isOnBoard(x, y)
    THEN Outcome(FALSE, ErrInvalid, mem0, currentBoard, currentBoard, 0, history)
    ELSE IF Occupied(mem0, currentBoard, x, y)
    THEN Outcome(FALSE, ErrOccupied, mem0, currentBoard, currentBoard, 0, history)
    ELSE LET copy == copyBoard(mem0, currentBoard)
             newBoard == copy.board
             mem1 == [copy.mem EXCEPT ![newBoard[y]][x] = player]
             self == getGroupAndLiberties(mem1, newBoard, x, y)
             cap == CaptureLoop(mem1, newBoard, getNeighbors(x, y), Opponent(player), 0)
             boardHash == JSONstringify(Deref(cap.mem, newBoard))
         IN  IF self.liberties = 0
             THEN Outcome(FALSE, ErrSuicide, mem1, currentBoard, newBoard, 0, history)
             ELSE IF KoRepeats(history, boardHash)
             THEN Outcome(FALSE, ErrKo, cap.mem, currentBoard, newBoard, 0, history)
             ELSE Outcome(TRUE, Undefined, cap.mem, currentBoard, newBoard,
                          cap.capturedCount, history)

\* The TypeError of reading a property of undefined.
TypeError == "TypeError: Cannot read properties of undefined"

\* tryMakeMove with the occupancy check made before the bounds check:
\* currentBoard[y] is undefined for a row off the grid, and so is
\* currentBoard[y][x] for a column off the grid, which is not null.
tryMakeMoveOccupancyFirst(mem0, currentBoard, x, y, player, history) ==
    IF y \notin Idx
    THEN Outcome(FALSE, TypeError, mem0, currentBoard, currentBoard, 0, history)
    ELSE IF x \notin Idx \/ Occupied(mem0, currentBoard, x, y)
    THEN Outcome(FALSE, ErrOccupied, mem0, currentBoard, currentBoard, 0, history)
    ELSE LET copy == copyBoard(mem0, currentBoard)
             newBoard == copy.board
             mem1 == [copy.mem EXCEPT ![newBoard[y]][x] = player]
             cap == CaptureLoop(mem1, newBoard, getNeighbors(x, y), Opponent(player), 0)
             self == getGroupAndLiberties(cap.mem, newBoard, x, y)
             boardHash == JSONstringify(Deref(cap.mem, newBoard))
         IN  IF self.liberties = 0
             THEN Outcome(FALSE, ErrSuicide, cap.mem, currentBoard, newBoard, 0, history)
             ELSE IF KoRepeats(history, boardHash)
             THEN Outcome(FALSE, ErrKo, cap.mem, currentBoard, newBoard, 0, history)
             ELSE Outcome(TRUE, Undefined, cap.mem, currentBoard, newBoard,
                          cap.capturedCount, history)

tryMakeMoveIn(mem0, currentBoard, x, y, player, history) ==
    IF ~isOnBoard(x, y)
    THEN Outcome(FALSE, ErrInvalid, mem0, currentBoard, currentBoard, 0, history)
    ELSE IF Occupied(mem0, currentBoard, x, y)
    THEN Outcome(FALSE, ErrOccupied, mem0, currentBoard, currentBoard, 0, history)
    ELSE LET copy == copyBoard(mem0, currentBoard)
             newBoard == copy.board
             mem1 == [copy.mem EXCEPT ![newBoard[y]][x] = player]
             cap == CaptureLoop(mem1, newBoard, getNeighbors(x, y), Opponent(player), 0)
             self == getGroupAndLiberties(cap.mem, newBoard, x, y)
             boardHash == JSONstringify(Deref(cap.mem, newBoard))
         IN  IF self.liberties = 0
             THEN Outcome(FALSE, ErrSuicide, cap.mem, currentBoard, newBoard, 0, history)
             ELSE IF KoRepeats(history, boardHash)
             THEN Outcome(FALSE, ErrKo, cap.mem, currentBoard, newBoard, 0, history)
             ELSE Outcome(TRUE, Undefined, cap.mem, currentBoard, newBoard,
                          cap.capturedCount, history)

\* tryMakeMove called with a board value: the board is laid out in memory,
\* the function runs, and the caller's view afterwards is returned.
tryMakeMove(currentBoard, x, y, player, history) ==
    LET loaded == LoadBoard(currentBoard)
    IN  tryMakeMoveIn(loaded.mem, loaded.board, x, y, player, history)

\* Coordinates <<x, y>> handed to tryMakeMove from outside the board's own
\* clicks: every cell of the grid and one point beyond each side of it.
CoordArgs ==
    (Idx \X Idx) \cup {<< -1, 0 >>, << BOARD_SIZE, 1 >>, << 0, -1 >>, << 1, BOARD_SIZE >>}

----------------------------------------------------------------------------
(* State of App.                                                           *)

VARIABLES
    gameState,     \* useState<GameState>(INITIAL_STATE)
    aiEnabled,     \* useState(false)
    aiColor,       \* useState<PlayerColor>('white')
    isAiThinking,  \* useState(false)
    pending,       \* makeAiMove calls awaiting getAiMove: a bag of closures
    call           \* a call of tryMakeMove on its own: arguments and outcome

vars == << gameState, aiEnabled, aiColor, isAiThinking, pending, call >>

\* lastMove: null, or { x, y } held as << x, y >>.
NoMove == << >>

INITIAL_STATE ==
    [board         |-> INITIAL_BOARD,
     currentPlayer |-> "black",
     captured      |-> [black |-> 0, white |-> 0],
     history       |-> << JSONstringify(INITIAL_BOARD) >>,
     lastMove      |-> NoMove,
     passes        |-> 0,
     gameOver      |-> FALSE,
     winner        |-> Null]

NoCall == [phase |-> "none"]

Init ==
    /\ gameState = INITIAL_STATE
    /\ aiEnabled = FALSE
    /\ aiColor = "white"
    /\ isAiThinking = FALSE
    /\ pending = EmptyBag
    /\ call = NoCall

----------------------------------------------------------------------------
(* The handlers.  A handler is a closure over the gameState of the render  *)
(* that created it (`closure`); its setGameState(prev => ...) updater is   *)
(* applied to the state current when it runs (`prev`).  For a click the    *)
(* two are the same; for a reply of getAiMove the closure is the render    *)
(* in which makeAiMove started.                                            *)

\* The board array in `closure` is the one handed to tryMakeMove; while the
\* current state still holds that array, a write to it by the engine shows
\* in the current state.
SeenBy(prev, closure, result) ==
    IF prev.board = closure.board THEN [prev EXCEPT !.board = result.input] ELSE prev

\* The accepted branch with the history replaced instead of extended.
MoveAcceptedHistoryReplaced(closure, prev, x, y, result) ==
    [prev EXCEPT !.board = result.newBoard,
                 !.currentPlayer = Opponent(closure.currentPlayer),
                 !.captured = IF closure.currentPlayer = "black"
                              THEN [closure.captured EXCEPT !.black = @ + result.capturedCount]
                              ELSE [closure.captured EXCEPT !.white = @ + result.capturedCount],
                 !.history = << JSONstringify(result.newBoard) >>,
                 !.lastMove = << x, y >>,
                 !.passes = 0]

\* The accepted branch appending the fingerprint of the board moved from.
MoveAcceptedOldFingerprint(closure, prev, x, y, result) ==
    [prev EXCEPT !.board = result.newBoard,
                 !.currentPlayer = Opponent(closure.currentPlayer),
                 !.captured = IF closure.currentPlayer = "black"
                              THEN [closure.captured EXCEPT !.black = @ + result.capturedCount]
                              ELSE [closure.captured EXCEPT !.white = @ + result.capturedCount],
                 !.history = Append(prev.history, JSONstringify(closure.board)),
                 !.lastMove = << x, y >>,
                 !.passes = 0]

\* The accepted branch extending the history of the render that made the
\* call instead of the history of the state it updates.
MoveAcceptedClosureHistory(closure, prev, x, y, result) ==
    [prev EXCEPT !.board = result.newBoard,
                 !.currentPlayer = Opponent(closure.currentPlayer),
                 !.captured = IF closure.currentPlayer = "black"
                              THEN [closure.captured EXCEPT !.black = @ + result.capturedCount]
                              ELSE [closure.captured EXCEPT !.white = @ + result.capturedCount],
                 !.history = Append(closure.history, JSONstringify(result.newBoard)),
                 !.lastMove = << x, y >>,
                 !.passes = 0]

\* handleMove, the branch taken when result.success && result.newBoard.
MoveAccepted(closure, prev, x, y, result) ==
    LET nextPlayer == Opponent(closure.currentPlayer)
        newCaptured ==
            IF closure.currentPlayer = "black"
            THEN [closure.captured EXCEPT !.black = @ + result.capturedCount]
            ELSE [closure.captured EXCEPT !.white = @ + result.capturedCount]
    IN  [prev EXCEPT !.board = result.newBoard,
                     !.currentPlayer = nextPlayer,
                     !.captured = newCaptured,
                     !.history = Append(prev.history, JSONstringify(result.newBoard)),
                     !.lastMove = << x, y >>,
                     !.passes = 0]

\* The rejected branch handing the turn to the opponent.
MoveRejectedTurnPasses(closure, prev, x, y, result) ==
    [prev EXCEPT !.currentPlayer = Opponent(closure.currentPlayer)]

\* handleMove, the else branch: setErrorMsg only.
MoveRejected(closure, prev, x, y, result) == SeenBy(prev, closure, result)

\* handleMove(x, y) from the result of its call of tryMakeMove on.
handleMoveWith(closure, prev, x, y, result) ==
    IF result.success
    THEN MoveAccepted(closure, prev, x, y, result)
    ELSE MoveRejected(closure, prev, x, y, result)

\* The gameState after handleMove(x, y).
handleMove(closure, prev, x, y) ==
    IF closure.gameOver
    THEN prev
    ELSE handleMoveWith(closure, prev, x, y,
                        tryMakeMove(closure.board, x, y, closure.currentPlayer,
                                    closure.history))

\* setGameState(prev => ({ ...prev, gameOver: true, winner: 'draw' }))
calculateScore(prev) == [prev EXCEPT !.gameOver = TRUE, !.winner = "draw"]

\* The gameState after handlePass().
handlePass(closure, prev) ==
    IF closure.gameOver
    THEN prev
    ELSE LET nextPlayer == Opponent(closure.currentPlayer)
             newPasses == closure.passes + 1
             passed == [prev EXCEPT !.currentPlayer = nextPlayer,
                                    !.passes = newPasses,
                                    !.gameOver = (newPasses >= 2)]
         IN  IF newPasses >= 2 THEN calculateScore(passed) ELSE passed

\* handleResign naming the player to move as the winner.
handleResignMoverWins(closure, prev) ==
    [prev EXCEPT !.gameOver = TRUE, !.winner = closure.currentPlayer]

\* The gameState after handleResign().
handleResign(closure, prev) ==
    [prev EXCEPT !.gameOver = TRUE, !.winner = Opponent(closure.currentPlayer)]

----------------------------------------------------------------------------
(* Rendering and the AI turn effect.                                       *)

\* Longest gameState.history the model lets a game reach.
MaxHistoryLen == 2

\* Most makeAiMove calls awaiting their reply at once.
MaxPending == 2

\* The dependency array of the AI turn effect.
EffectDeps(gs, enabled, color) == << gs.currentPlayer, gs.gameOver, enabled, color >>

\* The effect runs after a render in which a dependency changed, and starts
\* makeAiMove when its condition holds.
EffectStarts(gs, enabled, color) ==
    /\ EffectDeps(gs, enabled, color) # EffectDeps(gameState, aiEnabled, aiColor)
    /\ enabled /\ ~gs.gameOver /\ gs.currentPlayer = color

\* makeAiMove as it awaits getAiMove: the render's gameState and aiColor.
Request(gs, color) == [gameState |-> gs, aiColor |-> color]

\* The state updates of one event are committed, the component renders and
\* the effect runs; `thinking` and `waiting` are isAiThinking and the
\* awaited calls as the event left them.
Commit(gs, enabled, color, thinking, waiting) ==
    /\ gameState' = gs
    /\ aiEnabled' = enabled
    /\ aiColor' = color
    /\ IF EffectStarts(gs, enabled, color)
       THEN /\ BagCardinality(waiting) < MaxPending
            /\ isAiThinking' = TRUE
            /\ pending' = waiting (+) SetToBag({Request(gs, color)})
       ELSE /\ isAiThinking' = thinking
            /\ pending' = waiting
    /\ UNCHANGED call

----------------------------------------------------------------------------
(* Events.                                                                 *)

\* A click on intersection (x, y) of the board:
\* onClick={() => !isAiThinking && onIntersectionClick(x, y)}.
Click(x, y, limit) ==
    /\ ~isAiThinking
    /\ LET next == handleMove(gameState, gameState, x, y)
       IN  /\ Len(next.history) <= limit
           /\ Commit(next, aiEnabled, aiColor, isAiThinking, pending)

\* The Pass button: disabled={gameState.gameOver || isAiThinking}.
PassButton ==
    /\ ~gameState.gameOver /\ ~isAiThinking
    /\ Commit(handlePass(gameState, gameState),
              aiEnabled, aiColor, isAiThinking, pending)

\* The Resign button: disabled={gameState.gameOver || isAiThinking}.
ResignButton ==
    /\ ~gameState.gameOver /\ ~isAiThinking
    /\ Commit(handleResign(gameState, gameState),
              aiEnabled, aiColor, isAiThinking, pending)

\* New Game and Play Again: resetGame.
resetGame ==
    Commit(INITIAL_STATE, aiEnabled, aiColor, isAiThinking, pending)

\* The AI toggle: setAiEnabled(!aiEnabled).
ToggleAi ==
    Commit(gameState, ~aiEnabled, aiColor, isAiThinking, pending)

\* "AI plays White" / "AI plays Black", shown while aiEnabled.
SetAiColor(color) ==
    /\ aiEnabled
    /\ Commit(gameState, aiEnabled, color, isAiThinking, pending)

\* getAiMove resolves to 'resign', 'pass' or { x, y } for an awaited
\* makeAiMove: setIsAiThinking(false), then the handler of the render in
\* which makeAiMove started.
AiResigns(req) ==
    /\ BagIn(req, pending)
    /\ Commit(handleResign(req.gameState, gameState),
              aiEnabled, aiColor, FALSE, pending (-) SetToBag({req}))

AiPasses(req) ==
    /\ BagIn(req, pending)
    /\ Commit(handlePass(req.gameState, gameState),
              aiEnabled, aiColor, FALSE, pending (-) SetToBag({req}))

AiMoves(req, x, y, limit) ==
    /\ BagIn(req, pending)
    /\ LET next == handleMove(req.gameState, gameState, x, y)
       IN  /\ Len(next.history) <= limit
           /\ Commit(next, aiEnabled, aiColor, FALSE, pending (-) SetToBag({req}))

\* The intersections clicked on, and the coordinates the AI answers with:
\* the same and one off the board.
RaceCells == {<< 0, 0 >>, << 1, 0 >>}

RaceCoords == RaceCells \cup {<< -1, 0 >>}

\* Every event, with replies of getAiMove arriving at any time: after New
\* Game, after the AI was switched off and on, in any order.
Next ==
    \/ \E p \in RaceCells : Click(p[1], p[2], MaxHistoryLen)
    \/ PassButton
    \/ ResignButton
    \/ resetGame
    \/ ToggleAi
    \/ \E color \in PlayerColor : SetAiColor(color)
    \/ \E req \in BagToSet(pending) : AiResigns(req)
    \/ \E req \in BagToSet(pending) : AiPasses(req)
    \/ \E req \in BagToSet(pending), p \in RaceCoords :
          AiMoves(req, p[1], p[2], MaxHistoryLen)

Spec == Init /\ [][Next]_vars

----------------------------------------------------------------------------
(* Longer games: the players (and the AI, playing white when switched on)  *)
(* play in the top-left corner of the board, and New Game and the AI       *)
(* toggle are left alone while a reply of getAiMove is awaited.            *)

\* Longest gameState.history of a longer game.
MaxGameLen == 6

\* Columns 0 .. CornerWidth - 1 are played on.
CornerWidth == 2

CornerCells == {p \in Idx \X Idx : p[1] < CornerWidth}

AiCoords == CornerCells \cup (CoordArgs \ (Idx \X Idx))

Idle == pending = EmptyBag

NextGame ==
    \/ \E p \in CornerCells : Click(p[1], p[2], MaxGameLen)
    \/ PassButton
    \/ ResignButton
    \/ Idle /\ resetGame
    \/ Idle /\ ToggleAi
    \/ \E req \in BagToSet(pending) : AiResigns(req)
    \/ \E req \in BagToSet(pending) : AiPasses(req)
    \/ \E req \in BagToSet(pending), p \in AiCoords :
          AiMoves(req, p[1], p[2], MaxGameLen)

SpecGame == Init /\ [][NextGame]_vars

\* Two players at the board, the AI left switched off, for one move more:
\* long enough to take a ko, answer elsewhere and come back to it.
MaxKoLen == 7

NextKo ==
    \/ \E p \in CornerCells : Click(p[1], p[2], MaxKoLen)
    \/ PassButton
    \/ resetGame

SpecKo == Init /\ [][NextKo]_vars

----------------------------------------------------------------------------
(* Replies of getAiMove that arrive late: a person plays black on two      *)
(* points against the AI, presses New Game and the AI toggle at any time,  *)
(* also while a reply is awaited, and the AI answers each makeAiMove with  *)
(* a resignation, a pass, the corner point or a point off the board.       *)

\* Longest gameState.history of such a game.
MaxRaceLen == 5

HumanPoints == {<< 1, 0 >>, << 0, 1 >>}

AiReplies == {<< 0, 0 >>, << -1, 0 >>}

NextRace ==
    \/ \E p \in HumanPoints : Click(p[1], p[2], MaxRaceLen)
    \/ resetGame
    \/ ToggleAi
    \/ \E req \in BagToSet(pending) : AiResigns(req)
    \/ \E req \in BagToSet(pending) : AiPasses(req)
    \/ \E req \in BagToSet(pending), p \in AiReplies :
          AiMoves(req, p[1], p[2], MaxRaceLen)

SpecRace == Init /\ [][NextRace]_vars

----------------------------------------------------------------------------
(* tryMakeMove as a pure function: the arguments are drawn from bounded    *)
(* sets and the function is applied once.                                  *)

\* Longest history passed to a call of tryMakeMove on its own.
MaxHistoryArg == 3

\* Most stones of one colour on a board passed to a call of tryMakeMove on
\* its own.
MaxStonesArg == 3

Stones(board, color) == Cardinality({p \in Idx \X Idx : board[p[2]][p[1]] = color})

BoardArgs ==
    {b \in BoardState : \A color \in PlayerColor : Stones(b, color) <= MaxStonesArg}

RECURSIVE SeqsUpTo(_, _)
SeqsUpTo(S, n) ==
    IF n = 0 THEN {<< >>}
    ELSE LET shorter == SeqsUpTo(S, n - 1)
         IN  shorter \cup {Append(s, e) : s \in {t \in shorter : Len(t) = n - 1}, e \in S}

\* Histories for a call: fingerprints of the board passed in and of the
\* board the move would produce, in every arrangement.
HistoryArgs(board, x, y, player) ==
    LET r == tryMakeMove(board, x, y, player, << >>)
        entries == {JSONstringify(board)} \cup
                   (IF r.success THEN {JSONstringify(r.newBoard)} ELSE {})
    IN  SeqsUpTo(entries, MaxHistoryArg)

InitEngine ==
    /\ gameState = INITIAL_STATE
    /\ aiEnabled = FALSE
    /\ aiColor = "white"
    /\ isAiThinking = FALSE
    /\ pending = EmptyBag
    /\ call \in {[phase |-> "args", board |-> b] : b \in BoardArgs}

EngineCall ==
    /\ call.phase = "args"
    /\ \E p \in CoordArgs, player \in PlayerColor :
         \E history \in HistoryArgs(call.board, p[1], p[2], player) :
            call' = [phase   |-> "returned",
                     board   |-> call.board,
                     x       |-> p[1],
                     y       |-> p[2],
                     player  |-> player,
                     history |-> history,
                     result  |-> tryMakeMove(call.board, p[1], p[2], player, history)]
    /\ UNCHANGED << gameState, aiEnabled, aiColor, isAiThinking, pending >>

NextEngine == EngineCall

SpecEngine == InitEngine /\ [][NextEngine]_vars

----------------------------------------------------------------------------
(* The rules of Go, stated on board values independently of the engine:    *)
(* groups, liberties and the position a placement produces.                *)

Cells == Idx \X Idx

At(board, p) == board[p[2]][p[1]]

Adjacent(p, q) ==
    \/ p[1] = q[1] /\ (p[2] = q[2] + 1 \/ q[2] = p[2] + 1)
    \/ p[2] = q[2] /\ (p[1] = q[1] + 1 \/ q[1] = p[1] + 1)

\* The least set of cells holding S and closed under adjacency in one colour.
RECURSIVE Grow(_, _, _)
Grow(board, color, S) ==
    LET more == {q \in Cells \ S : At(board, q) = color /\ \E s \in S : Adjacent(s, q)}
    IN  IF more = {} THEN S ELSE Grow(board, color, S \cup more)

\* The group of the stone at p: the maximal 4-connected same-coloured set.
GroupOf(board, p) == Grow(board, At(board, p), {p})

\* The liberties of a set of stones: the empty cells adjacent to a member.
LibertiesOf(board, G) ==
    {q \in Cells : At(board, q) = Null /\ \E s \in G : Adjacent(s, q)}

\* The board with a stone of `player` put on p and nothing removed.
Placed(board, p, player) == [board EXCEPT ![p[2]][p[1]] = player]

\* The opponent stones a placement on p captures: every opponent group
\* adjacent to p that has no liberty once the stone is placed.
Captured(board, p, player) ==
    LET placed == Placed(board, p, player)
    IN  UNION {GroupOf(placed, q) : q \in
                 {n \in Cells : /\ Adjacent(p, n)
                                /\ At(placed, n) = Opponent(player)
                                /\ LibertiesOf(placed, GroupOf(placed, n)) = {}}}

\* The position after the placement and its captures.
Resolved(board, p, player) ==
    LET placed == Placed(board, p, player)
        dead == Captured(board, p, player)
    IN  [y \in Idx |-> [x \in Idx |->
            IF << x, y >> \in dead THEN Null ELSE placed[y][x]]]

\* The placement leaves the mover's group without a liberty after captures.
SelfDead(board, p, player) ==
    LET resolved == Resolved(board, p, player)
    IN  LibertiesOf(resolved, GroupOf(resolved, p)) = {}

\* A returned call of tryMakeMove on an empty cell of the grid.
ReturnedOnEmpty ==
    /\ call.phase = "returned"
    /\ isOnBoard(call.x, call.y)
    /\ At(call.board, << call.x, call.y >>) = Null

CallPoint == << call.x, call.y >>

----------------------------------------------------------------------------
(* Claims about tryMakeMove, under SpecEngine.                             *)

\* The placement would stand without a liberty before captures are resolved
\* and takes the last liberty of an adjacent opponent group.
CapturingOnLastLiberty ==
    /\ ReturnedOnEmpty
    /\ LET placed == Placed(call.board, CallPoint, call.player)
       IN  /\ LibertiesOf(placed, GroupOf(placed, CallPoint)) = {}
           /\ Captured(call.board, CallPoint, call.player) # {}

\* C1: capture is resolved before the suicide check.  A placement on an
\* empty cell that would have no liberty on the post-placement board but
\* takes the last liberty of an adjacent opponent group is never rejected
\* as Suicide: it is accepted unless the repetition rule rejects it, and
\* when accepted the captured groups are empty on the returned board and
\* capturedCount is the number of stones removed.
C1_CaptureBeforeSuicide ==
    CapturingOnLastLiberty =>
        /\ call.result.error # ErrSuicide
        /\ call.result.success \/ call.result.error = ErrKo
        /\ call.result.success <=> ~KoRepeats(call.history,
                 JSONstringify(Resolved(call.board, CallPoint, call.player)))
        /\ call.result.success =>
             /\ \A q \in Captured(call.board, CallPoint, call.player) :
                    At(call.result.newBoard, q) = Null
             /\ call.result.capturedCount =
                    Cardinality({q \in Cells : /\ At(call.board, q) # Null
                                               /\ At(call.result.newBoard, q) = Null})
             /\ call.result.capturedCount > 0

C1_Witness ==
    /\ CapturingOnLastLiberty
    /\ call.result.success
    /\ call.result.capturedCount >= 2

\* C3: on success the returned board is the input board with the stone
\* placed and exactly the cells of every adjacent opponent group left
\* without a liberty emptied, and capturedCount is the number of cells
\* emptied, each stone counted once.
C3_ResultingBoard ==
    (call.phase = "returned" /\ call.result.success) =>
        /\ isOnBoard(call.x, call.y)
        /\ call.result.newBoard = Resolved(call.board, CallPoint, call.player)
        /\ call.result.capturedCount =
               Cardinality(Captured(call.board, CallPoint, call.player))

\* Captured stones next to the placed stone.
DeadNeighbors ==
    {n \in Cells : /\ Adjacent(CallPoint, n)
                   /\ n \in Captured(call.board, CallPoint, call.player)}

\* A captured group that touches the placed stone through two neighbours.
C3_Witness ==
    /\ call.phase = "returned" /\ call.result.success
    /\ call.result.capturedCount = 3
    /\ \E n1, n2 \in DeadNeighbors :
          /\ n1 # n2
          /\ LET placed == Placed(call.board, CallPoint, call.player)
             IN  GroupOf(placed, n1) = GroupOf(placed, n2)

\* Two groups captured by one placement.
TwoGroupsCaptured ==
    /\ call.phase = "returned" /\ call.result.success
    /\ \E n1, n2 \in DeadNeighbors :
          LET placed == Placed(call.board, CallPoint, call.player)
          IN  GroupOf(placed, n1) # GroupOf(placed, n2)

\* C5: on an empty cell of the grid the move is rejected as Suicide exactly
\* when, after the captures of the placement, the mover's group has no
\* liberty; then no board is returned and the board passed in is as it was.
C5_SuicideIff ==
    ReturnedOnEmpty =>
        /\ call.result.error = ErrSuicide <=> SelfDead(call.board, CallPoint, call.player)
        /\ call.result.error = ErrSuicide =>
               /\ ~call.result.success
               /\ call.result.newBoard = Undefined
               /\ call.result.input = call.board

\* A suicide into an opponent's eye, with a neighbouring opponent group
\* that keeps a liberty.
C5_Witness ==
    /\ ReturnedOnEmpty
    /\ call.result.error = ErrSuicide
    /\ \E n \in Cells : Adjacent(CallPoint, n) /\ At(call.board, n) = Opponent(call.player)

\* C6: a move on an occupied cell of the grid is rejected as Occupied,
\* whatever the player and the history, and the board is as it was.
C6_Occupied ==
    (/\ call.phase = "returned"
     /\ isOnBoard(call.x, call.y)
     /\ At(call.board, CallPoint) # Null) =>
        /\ ~call.result.success
        /\ call.result.error = ErrOccupied
        /\ call.result.input = call.board

\* An occupied cell of the mover's own colour, with a history of two entries.
C6_Witness ==
    /\ call.phase = "returned"
    /\ isOnBoard(call.x, call.y)
    /\ At(call.board, CallPoint) = call.player
    /\ Len(call.history) = 2
    /\ call.result.error = ErrOccupied

\* C7: tryMakeMove does not change its arguments: after every call, accepted
\* or rejected, the board and the history passed in hold what they held
\* before, and a returned board shares no row with the board passed in.
C7_InputsUntouched ==
    call.phase = "returned" =>
        /\ call.result.input = call.board
        /\ call.result.history = call.history
        /\ ~call.result.sharesRows

\* An accepted move that captured: the working board was written both at
\* the placed cell and at the captured cells.
C7_Witness ==
    /\ call.phase = "returned"
    /\ call.result.success
    /\ call.result.capturedCount > 0
    /\ call.result.input = call.board

\* The move passes the bounds, occupancy and suicide checks.
PassesEarlierChecks ==
    /\ ReturnedOnEmpty
    /\ ~SelfDead(call.board, CallPoint, call.player)

\* C9: the repetition check looks at one entry.  The move is rejected as
\* KoViolation exactly when it passes the earlier checks, the history has
\* two entries or more and the fingerprint of the resulting board is the
\* second-to-last entry; a resulting board found only elsewhere in the
\* history is accepted.
C9_OneEntryLookback ==
    call.phase = "returned" =>
        LET n == Len(call.history)
            fp == JSONstringify(Resolved(call.board, CallPoint, call.player))
        IN  /\ call.result.error = ErrKo <=>
                   (PassesEarlierChecks /\ n >= 2 /\ call.history[n - 1] = fp)
            /\ (/\ PassesEarlierChecks
                /\ \A i \in 1 .. n : call.history[i] = fp => i # n - 1) =>
                   call.result.success

\* An accepted move whose resulting board is the oldest of three entries.
C9_Witness ==
    /\ PassesEarlierChecks
    /\ Len(call.history) = 3
    /\ call.history[1] = JSONstringify(Resolved(call.board, CallPoint, call.player))
    /\ call.history[2] # call.history[1]
    /\ call.result.success

----------------------------------------------------------------------------
(* Claims about the game, under SpecGame and SpecKo.                       *)

\* The renders whose handlers can run next: the current one, and the one
\* of every makeAiMove awaiting its reply.
Closures == {gameState} \cup {req.gameState : req \in BagToSet(pending)}

\* The call of tryMakeMove that handleMove(x, y) of `closure` makes.
EngineResult(closure, p) ==
    tryMakeMove(closure.board, p[1], p[2], closure.currentPlayer, closure.history)

StonesOn(board) == {q \in Cells : At(board, q) # Null}

\* C2: on the official board no group of stones is without a liberty.
C2_NoDeadGroup ==
    \A q \in StonesOn(gameState.board) :
        LibertiesOf(gameState.board, GroupOf(gameState.board, q)) # {}

\* A position after a capture, four stones or more on the board, one group
\* of them in atari.
C2_Witness ==
    /\ gameState.captured.black + gameState.captured.white > 0
    /\ Cardinality(StonesOn(gameState.board)) >= 4
    /\ \E q \in StonesOn(gameState.board) :
          Cardinality(LibertiesOf(gameState.board, GroupOf(gameState.board, q))) = 1

\* C8: a move the engine rejects, whichever the reason, leaves the whole
\* gameState as it was: board, currentPlayer, captured, history, lastMove,
\* passes (and gameOver and winner).
C8_RejectedLeavesState ==
    \A closure \in Closures, p \in AiCoords :
        LET result == EngineResult(closure, p)
        IN  (~closure.gameOver /\ ~result.success)
            => handleMoveWith(closure, gameState, p[1], p[2], result) = gameState

\* The AI is about to reply on a board that has a point of suicide for it,
\* next to the occupied points and the coordinates off the board.
C8_Witness ==
    /\ isAiThinking
    /\ \E req \in BagToSet(pending), p \in CornerCells :
          /\ ~req.gameState.gameOver
          /\ EngineResult(req.gameState, p).error = ErrSuicide
          /\ handleMove(req.gameState, gameState, p[1], p[2]) = gameState

\* The points that held a stone on `before` and are empty on `after`.
Vacated(before, after) ==
    {q \in Cells : At(before, q) # Null /\ At(after, q) = Null}

\* C4: right after a capture, the recapture that would put the board back
\* as it was before the capture is rejected with the ko error; and the ko
\* error is raised for nothing else than the capture of the single stone
\* just played, with no pass in between, so that after a move elsewhere
\* the recapture is accepted.
C4_Ko ==
    ~gameState.gameOver =>
    \A p \in Cells :
    \A result \in {EngineResult(gameState, p)} :
        /\ result.success =>
           \A q \in Vacated(gameState.board, result.newBoard) :
           \A next \in {handleMoveWith(gameState, gameState, p[1], p[2], result)} :
           \A back \in {tryMakeMove(next.board, q[1], q[2], next.currentPlayer, << >>)} :
               (back.success /\ back.newBoard = gameState.board)
               => EngineResult(next, q).error = ErrKo
        /\ result.error = ErrKo =>
           \A bare \in {tryMakeMove(gameState.board, p[1], p[2],
                                     gameState.currentPlayer, << >>)} :
               /\ gameState.passes = 0
               /\ gameState.lastMove # NoMove
               /\ bare.success /\ bare.capturedCount = 1
               /\ At(bare.newBoard, gameState.lastMove) = Null
               /\ JSONstringify(bare.newBoard)
                     = gameState.history[Len(gameState.history) - 1]

KoBefore ==
    [y \in Idx |-> [x \in Idx |->
        CASE << x, y >> = << 1, 0 >> -> "black"
          [] << x, y >> \in {<< 0, 0 >>, << 1, 1 >>, << 0, 2 >>} -> "white"
          [] OTHER -> Null]]

KoAfter ==
    [y \in Idx |-> [x \in Idx |->
        CASE << x, y >> \in {<< 1, 0 >>, << 0, 1 >>} -> "black"
          [] << x, y >> \in {<< 1, 1 >>, << 0, 2 >>} -> "white"
          [] OTHER -> Null]]

\* Black took the ko at (0, 0), white answered elsewhere, and white, to
\* move again, may now retake the ko.
C4_Witness ==
    /\ ~gameState.gameOver /\ gameState.currentPlayer = "white"
    /\ Len(gameState.history) >= 3
    /\ gameState.history[Len(gameState.history) - 2] = JSONstringify(KoBefore)
    /\ gameState.history[Len(gameState.history) - 1] = JSONstringify(KoAfter)
    /\ gameState.board # KoAfter
    /\ LET result == EngineResult(gameState, << 0, 0 >>)
       IN  /\ result.success /\ result.capturedCount = 1
           /\ At(result.newBoard, << 0, 1 >>) = Null

\* A pass pressed on the board as it is.
PassStep == PassButton \/ \E req \in BagToSet(pending) : AiPasses(req)

\* C10 as stated: a pass appends the fingerprint of the unchanged board.
C10_PassAppends ==
    [][PassStep => gameState'.history
                     = Append(gameState.history, JSONstringify(gameState.board))]_vars

\* C10: an accepted move appends the fingerprint of the new board, a pass
\* leaves the history as it is, and so the history is the initial entry
\* and one entry per accepted move: as many as stones were placed, on the
\* board or captured.
C10_MovesAppend ==
    /\ \A closure \in Closures, p \in AiCoords :
          LET result == EngineResult(closure, p)
              next == handleMoveWith(closure, gameState, p[1], p[2], result)
          IN  (~closure.gameOver /\ result.success)
              => next.history = Append(gameState.history, JSONstringify(next.board))
    /\ \A closure \in Closures :
          handlePass(closure, gameState).history = gameState.history
    /\ Len(gameState.history)
         = 1 + Cardinality(StonesOn(gameState.board))
             + gameState.captured.black + gameState.captured.white

\* Moves and passes were both played: four plies, two entries appended.
C10_Witness ==
    /\ Len(gameState.history) = 3
    /\ gameState.passes = 1 /\ ~gameState.gameOver
    /\ gameState.currentPlayer = "black"
    /\ Cardinality(StonesOn(gameState.board)) = 2

----------------------------------------------------------------------------
(* Claims about the game with late replies, under SpecRace.                *)

\* C11 as stated: between two resets neither capture counter ever goes
\* down, whatever the moves, passes, resignations and AI replies.
C11_CountersNeverDecrease ==
    [][resetGame \/ /\ gameState'.captured.black >= gameState.captured.black
                    /\ gameState'.captured.white >= gameState.captured.white]_vars

\* A stone was placed: handleMove ran for a click or for a reply of the AI,
\* and its accepted branch was taken.
AcceptedStep ==
    \E p \in CoordArgs :
        /\ \/ Click(p[1], p[2], MaxRaceLen)
           \/ \E req \in BagToSet(pending) : AiMoves(req, p[1], p[2], MaxRaceLen)
        /\ gameState'.history # gameState.history

\* C12 as stated: an accepted move sets passes to 0 and leaves the game in
\* progress, a pass adds one to passes, and a pass ends the game exactly
\* when passes reaches 2.
C12_ConsecutivePasses ==
    [][/\ (AcceptedStep /\ ~gameState.gameOver)
          => gameState'.passes = 0 /\ ~gameState'.gameOver
       /\ PassStep => /\ gameState'.passes = gameState.passes + 1
                      /\ gameState'.gameOver <=> gameState'.passes = 2]_vars

\* C18 as stated: a pass or a move of the AI is applied as computed from
\* the gameState current when it is applied (or not at all), and only when
\* it is the AI's turn there, so that no colour plays twice in a row.
C18_AppliedToCurrentState ==
    [][\A req \in BagToSet(pending) :
          /\ AiPasses(req) =>
                /\ gameState' \in {gameState, handlePass(gameState, gameState)}
                /\ gameState' # gameState => gameState.currentPlayer = req.aiColor
          /\ \A p \in AiReplies :
                AiMoves(req, p[1], p[2], MaxRaceLen) =>
                /\ gameState' \in {gameState, handleMove(gameState, gameState, p[1], p[2])}
                /\ gameState' # gameState => gameState.currentPlayer = req.aiColor]_vars

\* C20 as stated: once gameOver is true, nothing but New Game changes the
\* board, the history, the capture counters or the winner, or leaves the
\* ended state.
C20_EndIsAbsorbing ==
    [][gameState.gameOver =>
          \/ resetGame
          \/ /\ gameState'.gameOver
             /\ gameState'.board = gameState.board
             /\ gameState'.history = gameState.history
             /\ gameState'.captured = gameState.captured
             /\ gameState'.winner = gameState.winner]_vars

\* The history of `state` is not empty and ends with the fingerprint of
\* its board.
EndsWithBoard(state) ==
    /\ Len(state.history) >= 1
    /\ state.history[Len(state.history)] = JSONstringify(state.board)

\* One step of the game as the history sees it: New Game, or a step that
\* leaves board and history alone, or an accepted move, which appends the
\* fingerprint of the new board behind that of the board moved from.
HistoryStep ==
    \/ resetGame
    \/ /\ gameState'.history = gameState.history
       /\ gameState'.board = gameState.board
    \/ /\ AcceptedStep
       /\ gameState'.history
            = Append(gameState.history, JSONstringify(gameState'.board))
       /\ gameState'.history[Len(gameState'.history) - 1]
            = JSONstringify(gameState.board)

\* C21: in every reachable state the history is not empty and its last
\* entry is the fingerprint of the official board, and so it is in every
\* gameState a handler hands to tryMakeMove; between resets the history
\* only grows by appending, one entry per accepted move, which leaves as
\* second-to-last entry the board as it stood before that move.
C21_HistoryTracksBoard ==
    /\ [](\A state \in Closures : EndsWithBoard(state))
    /\ [][HistoryStep]_vars

\* A late reply was applied: the history is longer than the stones on the
\* board and the captures counted account for, and it has a second-to-last
\* entry.
C21_Witness ==
    /\ Len(gameState.history) >= 3
    /\ Len(gameState.history) - 1
         > Cardinality(StonesOn(gameState.board))
             + gameState.captured.black + gameState.captured.white

----------------------------------------------------------------------------
(* getAiMove: what the move-suggestion service answered, and what          *)
(* makeAiMove is handed for it.                                            *)

\* An answer of the service.  "error": generateContent rejects, the text is
\* empty or JSON.parse throws.  "json": the parsed object, with its action
\* (Undefined when it is neither 'pass' nor 'resign') and, for x and y,
\* whether typeof is 'number' and the number.
ServiceAnswers ==
    {[type |-> "error"]}
    \cup [type : {"json"}, action : {"pass", "resign", Undefined},
          numX : BOOLEAN, numY : BOOLEAN, x : {-1, 0}, y : {0}]

\* The value getAiMove resolves to.
getAiMove(answer) ==
    IF answer.type = "error" THEN [kind |-> "pass"]
    ELSE IF answer.action = "pass" THEN [kind |-> "pass"]
    ELSE IF answer.action = "resign" THEN [kind |-> "resign"]
    ELSE IF answer.numX /\ answer.numY
         THEN [kind |-> "move", x |-> answer.x, y |-> answer.y]
         ELSE [kind |-> "pass"]

\* makeAiMove `req` resumes with the value getAiMove resolved to.
Resumes(req, answer) ==
    LET move == getAiMove(answer)
    IN  CASE move.kind = "resign" -> AiResigns(req)
          [] move.kind = "pass" -> AiPasses(req)
          [] move.kind = "move" -> AiMoves(req, move.x, move.y, MaxRaceLen)

\* The answers that are malformed or name a point off the grid.
Unusable ==
    {a \in ServiceAnswers :
        \/ a.type = "error"
        \/ /\ a.action = Undefined
           /\ \/ ~(a.numX /\ a.numY)
              \/ ~isOnBoard(a.x, a.y)}

\* C14 as stated: a stone the AI places is the one tryMakeMove accepted for
\* the answer, and an answer that is malformed or off the grid is played as
\* a pass of the AI.
C14_UnusableAnswerPasses ==
    [][\A req \in BagToSet(pending) :
          /\ \A a \in ServiceAnswers :
                (Resumes(req, a) /\ gameState'.board # gameState.board)
                => LET result == tryMakeMove(req.gameState.board, a.x, a.y,
                                             req.aiColor, req.gameState.history)
                   IN  result.success /\ gameState'.board = result.newBoard
          /\ \A a \in Unusable :
                Resumes(req, a) => gameState' = handlePass(req.gameState, gameState)]_vars

\* Every awaited getAiMove settles: the service answers or fails, and
\* makeAiMove resumes.  Nothing obliges the person at the board to act.
AiAnswers ==
    \E req \in BagToSet(pending) :
        \/ AiResigns(req)
        \/ AiPasses(req)
        \/ \E p \in AiReplies : AiMoves(req, p[1], p[2], MaxRaceLen)

SpecRaceFair == SpecRace /\ WF_vars(AiAnswers)

\* It is the AI's turn in a game in progress and its answer is awaited.
AiToMove ==
    /\ aiEnabled /\ ~gameState.gameOver
    /\ gameState.currentPlayer = aiColor
    /\ pending # EmptyBag

\* C15 as stated: whenever it is the AI's turn and the service answers or
\* fails, eventually the turn is the other player's or the game is over.
C15_AiTurnEnds ==
    AiToMove ~> (gameState.gameOver \/ gameState.currentPlayer # aiColor)

----------------------------------------------------------------------------
(* Claims about the game with every event, under Spec.                     *)

\* What a resignation of `resigner` does to the gameState.
Resigned(resigner) ==
    /\ gameState'.gameOver
    /\ gameState'.winner = Opponent(resigner)
    /\ gameState'.board = gameState.board
    /\ gameState'.captured = gameState.captured
    /\ gameState'.history = gameState.history

\* C13: a resignation, by the Resign button for the player to move or by a
\* reply of the AI for the AI's colour, ends the game at once with the
\* opponent of the resigning player as winner, and leaves board, captured
\* and history as they were.
C13_Resignation ==
    [][/\ ResignButton => Resigned(gameState.currentPlayer)
       /\ \A req \in BagToSet(pending) : AiResigns(req) => Resigned(req.aiColor)]_vars

\* A game resigned with a stone on the board and a pass counted.
C13_Witness ==
    /\ gameState.gameOver /\ gameState.winner \in PlayerColor
    /\ gameState.passes = 1
    /\ gameState.board # INITIAL_BOARD

----------------------------------------------------------------------------
(* getGroupAndLiberties as a pure function: every board of the grid and    *)
(* every seed cell, the function applied once.                             *)

InitGroup ==
    /\ gameState = INITIAL_STATE
    /\ aiEnabled = FALSE
    /\ aiColor = "white"
    /\ isAiThinking = FALSE
    /\ pending = EmptyBag
    /\ call \in {[phase |-> "args", board |-> b, x |-> p[1], y |-> p[2]] :
                    b \in BoardState, p \in Idx \X Idx}

GroupCall ==
    /\ call.phase = "args"
    /\ LET loaded == LoadBoard(call.board)
       IN  call' = [phase  |-> "returned",
                    board  |-> call.board,
                    x      |-> call.x,
                    y      |-> call.y,
                    result |-> getGroupAndLiberties(loaded.mem, loaded.board,
                                                   call.x, call.y)]
    /\ UNCHANGED << gameState, aiEnabled, aiColor, isAiThinking, pending >>

NextGroup == GroupCall

SpecGroup == InitGroup /\ [][NextGroup]_vars

\* The cells of the returned group.
ReturnedGroup == {<< call.result.group[i].x, call.result.group[i].y >> :
                    i \in DOMAIN call.result.group}

\* The cells of the grid next to `p`: 4 inside, 3 on an edge, 2 in a corner.
Around(p) == Cardinality({q \in Cells : Adjacent(p, q)})

\* C16: for an occupied seed the group returned is the maximal 4-connected
\* set of stones of the seed's colour holding the seed, each stone once,
\* and liberties is the number of distinct empty cells next to a stone of
\* it; a lone stone on an otherwise empty board has as many liberties as
\* it has cells around it.
C16_GroupAndLiberties ==
    (call.phase = "returned" /\ At(call.board, CallPoint) # Null) =>
        /\ ReturnedGroup = GroupOf(call.board, CallPoint)
        /\ Len(call.result.group) = Cardinality(ReturnedGroup)
        /\ call.result.liberties
             = Cardinality(LibertiesOf(call.board, ReturnedGroup))
        /\ call.board = Placed(INITIAL_BOARD, CallPoint, At(call.board, CallPoint))
             => call.result.liberties = Around(CallPoint)

\* A group of three stones round a corner whose one liberty touches two
\* of them.
C16_Witness ==
    /\ call.phase = "returned"
    /\ Len(call.result.group) = 3
    /\ call.result.liberties = 1
    /\ \E q \in LibertiesOf(call.board, ReturnedGroup) :
          Cardinality({s \in ReturnedGroup : Adjacent(s, q)}) = 2

----------------------------------------------------------------------------
(* Further claims about tryMakeMove, under SpecEngine.                     *)

\* C17: a call with a coordinate off the grid returns the 'Invalid
\* position' error as a value, whatever the board, the player and the
\* history, with no board returned and the board passed in as it was; and
\* a call returns either a board or one of the four errors, never an
\* exception.
C17_OutOfBounds ==
    call.phase = "returned" =>
        /\ ~isOnBoard(call.x, call.y) =>
               /\ ~call.result.success
               /\ call.result.error = ErrInvalid
               /\ call.result.newBoard = Undefined
               /\ call.result.input = call.board
        /\ IF call.result.success
           THEN call.result.error = Undefined
           ELSE call.result.error \in {ErrInvalid, ErrOccupied, ErrSuicide, ErrKo}

\* A row off the grid, on a board with stones and with a history that
\* holds the board's fingerprint twice.
C17_Witness ==
    /\ call.phase = "returned"
    /\ call.y \notin Idx
    /\ call.result.error = ErrInvalid
    /\ Stones(call.board, "black") > 0 /\ Stones(call.board, "white") > 0
    /\ Len(call.history) = 2

----------------------------------------------------------------------------
(* The capture pass of tryMakeMove with the neighbours of the placed stone *)
(* taken in any order.                                                     *)

\* Lines 64-83 of tryMakeMove: the copy, the placement and the capture
\* pass, the neighbours visited in `order`.
CapturePass(board, x, y, player, order) ==
    LET loaded == LoadBoard(board)
        copy == copyBoard(loaded.mem, loaded.board)
        newBoard == copy.board
        mem1 == [copy.mem EXCEPT ![newBoard[y]][x] = player]
        cap == CaptureLoop(mem1, newBoard, order, Opponent(player), 0)
    IN  [newBoard |-> Deref(cap.mem, newBoard), capturedCount |-> cap.capturedCount]

\* Every arrangement of a sequence.
Orders(seq) ==
    {[i \in DOMAIN seq |-> seq[f[i]]] :
        f \in {g \in [DOMAIN seq -> DOMAIN seq] : \A i, j \in DOMAIN seq :
                                                     g[i] = g[j] => i = j}}

InitOrder ==
    /\ gameState = INITIAL_STATE
    /\ aiEnabled = FALSE
    /\ aiColor = "white"
    /\ isAiThinking = FALSE
    /\ pending = EmptyBag
    /\ call \in {[phase |-> "args", board |-> b] : b \in BoardArgs}

OrderedCall ==
    /\ call.phase = "args"
    /\ \E p \in Idx \X Idx, player \in PlayerColor :
         /\ call.board[p[2]][p[1]] = Null
         /\ \E order \in Orders(getNeighbors(p[1], p[2])) :
               call' = [phase  |-> "returned",
                        board  |-> call.board,
                        x      |-> p[1],
                        y      |-> p[2],
                        player |-> player,
                        order  |-> order,
                        result |-> CapturePass(call.board, p[1], p[2], player, order)]
    /\ UNCHANGED << gameState, aiEnabled, aiColor, isAiThinking, pending >>

NextOrder == OrderedCall

SpecOrder == InitOrder /\ [][NextOrder]_vars

\* C19: whatever the order in which the neighbours of the placed stone are
\* visited, the capture pass leaves the board and the count it leaves in
\* the order of getNeighbors: the placed stone on the board, the opponent
\* groups without liberty next to it removed, their stones counted.
C19_OrderIndependent ==
    call.phase = "returned" =>
        /\ call.result = CapturePass(call.board, call.x, call.y, call.player,
                                     getNeighbors(call.x, call.y))
        /\ call.result.newBoard = Resolved(call.board, CallPoint, call.player)
        /\ call.result.capturedCount
             = Cardinality(Captured(call.board, CallPoint, call.player))

\* Two separate groups are captured, visited in another order than that of
\* getNeighbors.
C19_Witness ==
    /\ call.phase = "returned"
    /\ call.order # getNeighbors(call.x, call.y)
    /\ LET placed == Placed(call.board, CallPoint, call.player)
           dead == {n \in Cells : /\ Adjacent(CallPoint, n)
                                  /\ n \in Captured(call.board, CallPoint, call.player)}
       IN  \E n1, n2 \in dead : GroupOf(placed, n1) # GroupOf(placed, n2)

====
